---------------------------- MODULE Spec2Model ----------------------------
(***************************************************************************)
(* State-machine model of the sqlcipher-bench benchmark driver             *)
(* (src/main.c, src/benchmark.c, src/bench.h).                             *)
(*                                                                         *)
(* The process is single threaded.  One action is one engine call (or the  *)
(* plain C code between two engine calls); the variable pc is the position *)
(* of the process in main / benchmark_run / benchmark_write / _read /      *)
(* _delete.  The storage engine is an external collaborator: every call    *)
(* may return a failure status, and the few engine rules that the driver   *)
(* depends on (a statement on a missing table does not prepare, REPLACE    *)
(* inserts a key, ...) are modelled in the actions that make the call.     *)
(***************************************************************************)
EXTENDS Integers, Sequences, FiniteSets, TLC

(***************************************************************************)
(* Bounds.  The three program constants below are far too large to be      *)
(* enumerated and are scaled down; the loops are translated unchanged.     *)
(***************************************************************************)
\* maximum keys per chunk (MAXNUMPERTIME, 500,000 in the program)
MAXNUMPERTIME == 2
\* entries per batch of the *batch workloads (the literal 1000)
BatchEntries == 2
\* divisor of the *100K workloads (the literal 1000)
Per100K == 2
\* largest value of --num and --reads that is enumerated
NumMax == 6
\* largest number of names in --benchmarks
MaxNames == 2
\* largest time that passes during the last call of a chunk, in ticks
MaxElapsed == 1
\* largest time on the clock since start(), in ticks
MaxClock == 2
\* largest operation count of the progress specification
MaxOps == 600100
\* largest number of command-line arguments
MaxArgs == 2
\* default --num (1,000,000 in the program)
DefaultNum == 2

\* value size of the *100K fills: 100 * 1000
LargeValueSize == 100000
\* default --value_size
DefaultValueSize == 128

SEQUENTIAL == "SEQUENTIAL"
RANDOM == "RANDOM"

(***************************************************************************)
(* The fixed table of workload names: the strcmp chain of benchmark_run.   *)
(***************************************************************************)
WriteNames ==
  {"fillseq", "fillseqbatch", "fillrandom", "fillrandbatch", "overwrite",
   "overwritesync", "overwritebatch", "fillrandsync", "fillseqsync",
   "fillrand100K", "fillseq100K"}
ReadNames == {"readseq", "readrandom", "readrand100K"}
DeleteNames == {"delete", "deletesync"}
KnownNames == WriteNames \cup ReadNames \cup DeleteNames
\* names given on the command line: the table, an unknown name, the empty name
InputNames == KnownNames \cup {"bogus", ""}

\* C integer division truncates toward zero
CDiv(a, b) == IF a >= 0 THEN a \div b ELSE -((-a) \div b)


(***************************************************************************)
(* The parameters each branch of benchmark_run passes to benchmark_write,  *)
(* benchmark_read and benchmark_delete.                                    *)
(***************************************************************************)
OpOf(nm) ==
  IF nm \in WriteNames THEN "write"
  ELSE IF nm \in ReadNames THEN "read"
  ELSE IF nm \in DeleteNames THEN "delete"
  ELSE "none"

\* a bug: the deletesync branch does not set write_sync
WriteSyncOf_NoDelete(nm) ==
  nm \in {"overwritesync", "fillrandsync", "fillseqsync"}

WriteSyncOf(nm) ==
  nm \in {"overwritesync", "fillrandsync", "fillseqsync", "deletesync"}

OrderOf(nm) ==
  IF nm \in {"fillseq", "fillseqbatch", "fillseqsync", "fillseq100K", "readseq"}
  THEN SEQUENTIAL ELSE RANDOM

EntriesPerBatchOf(nm) ==
  IF nm \in {"fillseqbatch", "fillrandbatch", "overwritebatch"}
  THEN BatchEntries ELSE 1

NumEntriesOf(nm, num) ==
  IF nm \in {"fillrand100K", "fillseq100K"} THEN CDiv(num, Per100K) ELSE num

ValueSizeOf(nm, flagSize) ==
  IF nm \in {"fillrand100K", "fillseq100K"} THEN LargeValueSize ELSE flagSize

(***************************************************************************)
(* util.c and random.c are not part of the sources at hand; the two        *)
(* functions the driver calls are modelled from the specification.         *)
(***************************************************************************)
\* if_create_database(name): a write workload that is not an overwrite
\* needs the table, and the schema is created one time only
if_create_database(nm, created) ==
  /\ nm \in WriteNames \ {"overwrite", "overwritesync", "overwritebatch"}
  /\ ~created

\* rand_next: multiplicative congruential generator modulo 2^31 - 1
\* (computed without exceeding 32 bits)
rand_next(seed) ==
  LET t == 16807 * (seed % 127773) - 2836 * (seed \div 127773)
  IN  IF t > 0 THEN t ELSE t + 2147483647

\* rand_init: the seed is normalised into (0, 2^31 - 1)
rand_init(s) == IF s = 0 \/ s = 2147483647 THEN 1 ELSE s

(***************************************************************************)
(* gen_key: sequential order fills i at position i; random order draws     *)
(* rand_next % num for every position.  The result is the pair             *)
(* <<keys, PRNG state afterwards>>.                                        *)
(***************************************************************************)
RECURSIVE RandomKeys(_, _, _)
RandomKeys(count, num, seed) ==
  IF count = 0 THEN <<  <<>>, seed >>
  ELSE LET s1   == rand_next(seed)
           rest == RandomKeys(count - 1, num, s1)
       IN  << <<s1 % num>> \o rest[1], rest[2] >>

\* a bug: the sequential keys start at 1
gen_key_OneBased(num, order, seed) ==
  IF order = SEQUENTIAL
  THEN << [p \in 1..num |-> p], seed >>
  ELSE RandomKeys(num, num, seed)

gen_key(num, order, seed) ==
  IF order = SEQUENTIAL
  THEN << [p \in 1..num |-> p - 1], seed >>
  ELSE RandomKeys(num, num, seed)

(***************************************************************************)
(* The status checks.  Each is TRUE when the process exits with code 1.    *)
(***************************************************************************)
exec_error_check(status) == status # "OK"

\* a bug: the status of a step is never taken as an error
step_error_check_Ignore(status) == FALSE

step_error_check(status) == status # "DONE"

\* a bug: the status is printed but the process goes on
error_check_Ignore(status) == FALSE

error_check(status) == status # "OK"

(***************************************************************************)
(* finish_single_op: <<done_, next_report_, progress line printed>>.      *)
(***************************************************************************)
\* a bug: the counter is compared with > instead of >=
finish_single_op_Late(done, next_report) ==
  LET d == done + 1
      r == IF d > next_report
           THEN IF      next_report < 1000   THEN next_report + 100
                ELSE IF next_report < 5000   THEN next_report + 500
                ELSE IF next_report < 10000  THEN next_report + 1000
                ELSE IF next_report < 50000  THEN next_report + 5000
                ELSE IF next_report < 100000 THEN next_report + 10000
                ELSE IF next_report < 500000 THEN next_report + 50000
                ELSE                              next_report + 100000
           ELSE next_report
  IN  <<d, r, d > next_report>>

finish_single_op(done, next_report) ==
  LET d == done + 1
      r == IF d >= next_report
           THEN IF      next_report < 1000   THEN next_report + 100
                ELSE IF next_report < 5000   THEN next_report + 500
                ELSE IF next_report < 10000  THEN next_report + 1000
                ELSE IF next_report < 50000  THEN next_report + 5000
                ELSE IF next_report < 100000 THEN next_report + 10000
                ELSE IF next_report < 500000 THEN next_report + 50000
                ELSE                              next_report + 100000
           ELSE next_report
  IN  <<d, r, d >= next_report>>

(***************************************************************************)
(* The chunk loop shared by the three workload functions                   *)
(*   for (int n = E > MAXNUMPERTIME ? MAXNUMPERTIME : E; n > 0;            *)
(*        n -= MAXNUMPERTIME)                                              *)
(***************************************************************************)
ForInit(entries) == IF entries > MAXNUMPERTIME THEN MAXNUMPERTIME ELSE entries

ForUpdate(n_) == n_ - MAXNUMPERTIME

ForTest(n_) == n_ > 0


(***************************************************************************)
(* The file system.  A path is a sequence of tokens, so that strcat is \o  *)
(* and "bench" + "x.db" is not the file x.db of the directory bench.       *)
(***************************************************************************)
\* default_db_path: "./"
DefaultDb == <<".", "/">>

\* the file name benchmark_open appends to FLAGS_db
DbName == "dbbench_sqlite3.db"

\* the names of the directory entries that are enumerated
EntryNames == {"dbbench_sqlite3.db", "dbbench_sqlite3.db-wal", "other.db"}

\* starts_with (util.c) on the names above
starts_with(str, prefix) ==
  /\ prefix = "dbbench_sqlite3"
  /\ str \in {"dbbench_sqlite3.db", "dbbench_sqlite3.db-wal"}

\* the files before the run: the entries of the directories . and bench,
\* and the file benchdbbench_sqlite3.db next to the directory bench
InitFiles ==
  {<<d, "/", nm>> : d \in {".", "bench"}, nm \in EntryNames}
    \cup {<<"bench", DbName>>}

\* opendir(path) succeeds
IsDir(path) == path \in {<<".">>, <<".", "/">>, <<"bench">>, <<"bench", "/">>}

\* the names readdir returns for the directory path
Entries(path, fs) ==
  {p[3] : p \in {q \in fs : Len(q) = 3 /\ q[2] = "/" /\ q[1] = path[1]}}

\* the paths benchmark_init hands to remove(): strcpy(file_name, FLAGS_db);
\* strcat(file_name, ep->d_name)
Removed(path, fs) ==
  {path \o <<nm>> : nm \in {e \in Entries(path, fs) :
                              starts_with(e, "dbbench_sqlite3")}}

\* the path benchmark_open opens
OpenPath(path, existing) == IF existing THEN path ELSE path \o <<DbName>>

(***************************************************************************)
(* State.                                                                  *)
(***************************************************************************)
VARIABLES
  \* main.c: the flags, as left by the argument loop
  FLAGS_benchmarks, FLAGS_num, FLAGS_reads, FLAGS_value_size,
  FLAGS_use_existing_db, FLAGS_transaction, FLAGS_WAL_enabled,
  FLAGS_db,
  \* main: the arguments and the index of the one examined next
  argv, argi,
  \* the files of the file system, the path benchmark_open opens
  files, file_name,
  \* the last reading of the wall clock, and the local 'start' of the
  \* chunk loops
  clock, startMicros,
  \* benchmark.c: the globals
  db_, num_, reads_, op_total_time_, bytes_, message_, rand_, done_,
  next_report_, progress,
  \* benchmark_run: the rest of the name list, the current name, the read
  \* count saved by the readrand100K branch; created is the one-time state
  \* of if_create_database
  benchmarks, name, saved_reads, created,
  \* benchmark_write / _read / _delete: parameters and locals
  op, write_sync, order, num_entries, value_size, entries_per_batch,
  n, i, j, keys, key, stmtIdx, todo,
  \* the storage engine, as far as the driver can observe it
  tableExists, rows, txOpen, synchronous, live, rowSeen,
  \* position of the process, its exit code, the last engine call
  pc, exitCode, lastCall, failedAt,
  \* what the run has done so far (observations, never read by the program)
  nBegin, nEnd, nCreate, nCheckpoint, chunks, elapsed, execs, txExecs,
  txSizes, stepped, found, oob, summaries, warnings, taken, completed,
  \* the time, since start(), by which the clock advanced from the first to
  \* the second reading of a chunk
  spent

flags == <<FLAGS_benchmarks, FLAGS_num, FLAGS_reads, FLAGS_value_size,
           FLAGS_use_existing_db, FLAGS_transaction, FLAGS_WAL_enabled,
           FLAGS_db, argv, argi>>
fsys == <<files, file_name>>
wall == <<clock, startMicros>>
timing == <<op_total_time_, bytes_, message_, done_, next_report_, progress>>
runl == <<benchmarks, name, saved_reads, created>>
params == <<op, write_sync, order, num_entries, value_size, entries_per_batch>>
locals == <<n, i, j, keys, key, stmtIdx, todo>>
eng == <<db_, tableExists, rows, txOpen, synchronous, live, rowSeen>>
ctl == <<pc, exitCode, lastCall, failedAt>>
counts == <<nBegin, nEnd, nCreate, nCheckpoint>>
perWorkload == <<chunks, elapsed, spent, execs, txExecs, txSizes, stepped,
                 found, oob>>
output == <<summaries, warnings, taken, completed>>
vars == <<flags, fsys, wall, timing, num_, reads_, rand_, runl, params, locals, eng, ctl,
          counts, perWorkload, output>>

(***************************************************************************)
(* Inputs.                                                                 *)
(***************************************************************************)
\* --benchmarks: the list has at least one name (the empty string is the
\* list of the one empty name)
RECURSIVE ListsOfLen(_)
ListsOfLen(k) ==
  IF k = 0 THEN {<<>>}
  ELSE {<<a>> \o l : a \in InputNames, l \in ListsOfLen(k - 1)}

Nums == -1..NumMax
\* time(0), the seed of the key generator
Seeds == {1, 20261101}
ValueSizes == {DefaultValueSize}

\* Runs of one workload are enumerated under every configuration, runs of
\* two workloads with a small and a large entry count, runs of longer
\* lists with the small entry count.
SingleRunInputs ==
  [benchmarks : ListsOfLen(1), num : Nums, reads : Nums,
   use_existing_db : BOOLEAN, seed : Seeds]

PairRunInputs ==
  [benchmarks : ListsOfLen(2), num : {1, NumMax}, reads : {-1},
   use_existing_db : {FALSE}, seed : {1}]

LongRunInputs ==
  [benchmarks : UNION {ListsOfLen(k) : k \in 3..MaxNames}, num : {1},
   reads : {-1}, use_existing_db : {FALSE}, seed : {1}]

RunInputs == SingleRunInputs \cup PairRunInputs \cup LongRunInputs

NoCall == [api |-> "none", status |-> "OK"]

Init ==
  /\ \E c \in RunInputs :
       /\ FLAGS_benchmarks = c.benchmarks
       /\ FLAGS_num = c.num
       /\ FLAGS_reads = c.reads
       /\ FLAGS_use_existing_db = c.use_existing_db
       /\ rand_ = c.seed
  /\ FLAGS_value_size \in ValueSizes
  /\ FLAGS_transaction \in BOOLEAN
  /\ FLAGS_WAL_enabled \in BOOLEAN
  \* the arguments have been examined; an existing database is named by
  \* its path, a fresh one is made in the default directory
  /\ argv = <<>> /\ argi = 1
  /\ FLAGS_db = IF FLAGS_use_existing_db THEN <<"bench", "/", "other.db">>
                ELSE DefaultDb
  /\ files = InitFiles /\ file_name = <<>>
  /\ clock = 0 /\ startMicros = 0 /\ spent = 0
  /\ db_ = "NULL" /\ num_ = 0 /\ reads_ = 0 /\ op_total_time_ = 0
  /\ bytes_ = 0 /\ message_ = <<>> /\ done_ = 0
  /\ next_report_ = 0 /\ progress = <<>>
  /\ benchmarks = <<>> /\ name = "" /\ saved_reads = 0 /\ created = FALSE
  /\ op = "none" /\ write_sync = FALSE /\ order = SEQUENTIAL
  /\ num_entries = 0 /\ value_size = 0 /\ entries_per_batch = 1
  /\ n = 0 /\ i = 0 /\ j = 0 /\ keys = <<>> /\ key = 0 /\ stmtIdx = 0
  /\ todo = <<>>
  \* an existing database may or may not hold the table
  /\ tableExists \in (IF FLAGS_use_existing_db THEN BOOLEAN ELSE {FALSE})
  /\ rows = {} /\ txOpen = FALSE /\ synchronous = "default" /\ live = {}
  /\ rowSeen = FALSE
  /\ pc = "init" /\ exitCode = "none" /\ lastCall = NoCall /\ failedAt = 0
  /\ nBegin = 0 /\ nEnd = 0 /\ nCreate = 0 /\ nCheckpoint = 0
  /\ chunks = <<>> /\ elapsed = <<>> /\ execs = 0 /\ txExecs = 0 /\ txSizes = <<>>
  /\ stepped = <<>> /\ found = {} /\ oob = FALSE
  /\ summaries = <<>> /\ warnings = <<>> /\ taken = 0 /\ completed = 0

(***************************************************************************)
(* exit(1) after a failed engine call: nothing else changes.               *)
(***************************************************************************)
\* The statuses that report success.
Success == {"OK", "DONE", "ROW"}

\* An engine call returned st: the call is recorded.  failedAt is the
\* position, in the name list, of the workload during which a call whose
\* status the driver looks at first failed (0: no failure so far).
Called(api, st) ==
  /\ lastCall' = [api |-> api, status |-> st]
  /\ failedAt' = IF failedAt = 0 /\ st \notin Success /\ api # "checkpoint"
                 THEN completed + 1 ELSE failedAt

Exit1(api, st) ==
  /\ pc' = "aborted"
  /\ exitCode' = 1
  /\ Called(api, st)

Fatal(api, st) ==
  /\ Exit1(api, st)
  /\ UNCHANGED <<flags, fsys, wall, timing, num_, reads_, rand_, runl, params, locals,
                 eng, counts, perWorkload, output>>

(***************************************************************************)
(* benchmark_init                                                          *)
(***************************************************************************)
benchmark_init ==
  /\ pc = "init"
  /\ db_' = "NULL"
  /\ num_' = FLAGS_num
  /\ reads_' = IF FLAGS_reads < 0 THEN FLAGS_num ELSE FLAGS_reads
  /\ bytes_' = 0
  /\ rand_' = rand_init(rand_)
  /\ \/ \* the directory is open, or closedir(NULL) returns: the entries
        \* whose names have the prefix are handed to remove() unless an
        \* existing database is used
        /\ IsDir(FLAGS_db) \/ FLAGS_use_existing_db
        /\ files' = IF FLAGS_use_existing_db THEN files
                    ELSE files \ Removed(FLAGS_db, files)
        \* the table is there when the file that will be opened is
        /\ tableExists' =
             (tableExists
                /\ OpenPath(FLAGS_db, FLAGS_use_existing_db) \in files')
        /\ pc' = "open"
        /\ UNCHANGED exitCode
     \/ \* opendir returned NULL: readdir(NULL) or closedir(NULL) faults
        /\ ~IsDir(FLAGS_db)
        /\ pc' = "crashed"
        /\ exitCode' = "signal"
        /\ UNCHANGED <<files, tableExists>>
  /\ UNCHANGED <<flags, file_name, wall, op_total_time_, message_, done_,
                 next_report_, progress, runl,
                 params, locals, rows, txOpen, synchronous, live, rowSeen,
                 lastCall, failedAt, counts, perWorkload, output>>

(***************************************************************************)
(* benchmark_open: sqlite3_open, then the configuration pragmas.           *)
(***************************************************************************)
OpenPragmas ==
  <<"cache_size">>
  \o (IF FLAGS_WAL_enabled THEN <<"journal_mode", "wal_autocheckpoint">>
      ELSE <<>>)
  \o <<"locking_mode">>

OpenDb ==
  /\ pc = "open"
  /\ db_ = "NULL"
  /\ file_name' = OpenPath(FLAGS_db, FLAGS_use_existing_db)
  \* a directory cannot be opened as a database
  /\ \E st \in IF IsDir(file_name') THEN {"ERROR"} ELSE {"OK", "ERROR"} :
       IF st # "OK"
       THEN /\ Exit1("open", st)
            /\ UNCHANGED <<flags, files, wall, timing, num_, reads_, rand_, runl,
                           params, locals, eng, counts, perWorkload, output>>
       ELSE /\ db_' = "open"
            /\ todo' = OpenPragmas
            /\ pc' = "open_exec"
            /\ Called("open", st)
            /\ UNCHANGED <<flags, files, wall, timing, num_, reads_, rand_, runl,
                           params, n, i, j, keys, key, stmtIdx, tableExists,
                           rows, txOpen, synchronous, live, rowSeen,
                           exitCode, counts, perWorkload, output>>

OpenExec ==
  /\ pc = "open_exec"
  /\ \E st \in {"OK", "ERROR"} :
       IF exec_error_check(st)
       THEN Fatal("exec", st)
       ELSE /\ todo' = Tail(todo)
            /\ IF Len(todo) = 1
               THEN pc' = "run_loop" /\ benchmarks' = FLAGS_benchmarks
               ELSE pc' = "open_exec" /\ UNCHANGED benchmarks
            /\ Called("exec", st)
            /\ UNCHANGED <<flags, fsys, wall, timing, num_, reads_, rand_, name,
                           saved_reads, created, params, n, i, j, keys, key,
                           stmtIdx, eng, exitCode, counts, perWorkload,
                           output>>


(***************************************************************************)
(* start(): the progress and timing state of the coming workload.          *)
(***************************************************************************)
\* a bug: the elapsed time is not reset
start_NoTimeReset ==
  /\ bytes_' = 0
  /\ done_' = 0
  /\ next_report_' = 100
  /\ UNCHANGED op_total_time_

start ==
  /\ bytes_' = 0
  /\ done_' = 0
  /\ next_report_' = 100
  /\ op_total_time_' = 0

(***************************************************************************)
(* benchmark_run, from "bytes_ = 0; start();" to the call of the workload  *)
(* function (or, for a name that is not in the table, to the end of the    *)
(* loop body).  The message is the empty string after start();             *)
(* benchmark_write replaces it when its entry count is not num_.           *)
(***************************************************************************)
\* a bug: the warning is printed for the empty name too
WarnWanted_Always(nm) == TRUE

\* if (strcmp(name, "")) fprintf(stderr, "unknown benchmark ...")
WarnWanted(nm) == nm # ""

Enter(nm) ==
  /\ start
  /\ progress' = <<>>
  /\ chunks' = <<>> /\ elapsed' = <<>> /\ spent' = 0
  \* time is counted from start(): only differences are ever used
  /\ clock' = 0
  /\ execs' = 0 /\ txExecs' = 0
  /\ txSizes' = <<>> /\ stepped' = <<>> /\ found' = {} /\ oob' = FALSE
  /\ op' = OpOf(nm)
  /\ write_sync' = WriteSyncOf(nm)
  /\ order' = OrderOf(nm)
  /\ entries_per_batch' = EntriesPerBatchOf(nm)
  /\ num_entries' = IF OpOf(nm) = "write" THEN NumEntriesOf(nm, num_) ELSE 0
  /\ value_size' = IF OpOf(nm) = "write"
                  THEN ValueSizeOf(nm, FLAGS_value_size) ELSE 0
  /\ message_' = IF OpOf(nm) = "write" /\ NumEntriesOf(nm, num_) # num_
                 THEN <<"(ops)">> ELSE <<>>
  /\ IF nm = "readrand100K"
     THEN saved_reads' = reads_ /\ reads_' = CDiv(reads_, Per100K)
     ELSE UNCHANGED <<saved_reads, reads_>>
  /\ stmtIdx' = 1
  /\ IF OpOf(nm) = "none"
     THEN /\ pc' = "run_loop"
          /\ warnings' = IF WarnWanted(nm) THEN Append(warnings, nm)
                         ELSE warnings
          /\ completed' = completed + 1
     ELSE /\ pc' = IF OpOf(nm) = "read" THEN "prepare" ELSE "sync_pragma"
          /\ UNCHANGED <<warnings, completed>>

\* a bug: the schema is created for every write workload
CreateWanted_EveryWrite(nm) == OpOf(nm) = "write"

\* if (if_create_database(name)) ...
CreateWanted(nm) == if_create_database(nm, created)

\* a bug: the loop ends after the first name
ListDone_AfterOne ==
  benchmarks = <<>> \/ Len(benchmarks) < Len(FLAGS_benchmarks)

\* while (benchmarks != NULL): the empty sequence stands for NULL
ListDone == benchmarks = <<>>

\* the head of the loop: the next name is cut off the list
RunNext ==
  /\ pc = "run_loop"
  /\ ~ListDone
  /\ name' = Head(benchmarks)
  /\ benchmarks' = Tail(benchmarks)
  /\ taken' = taken + 1
  /\ IF CreateWanted(Head(benchmarks))
     THEN /\ created' = TRUE
          /\ pc' = "create"
          /\ UNCHANGED <<clock, timing, reads_, saved_reads, params, stmtIdx,
                         perWorkload, warnings, completed>>
     ELSE /\ Enter(Head(benchmarks))
          /\ UNCHANGED created
  /\ UNCHANGED <<flags, fsys, startMicros, num_, rand_, n, i, j, keys, key, todo, eng, exitCode,
                 lastCall, failedAt, counts, summaries>>

\* sqlite3_exec of CREATE TABLE test; the engine refuses a second table
CreateTable ==
  /\ pc = "create"
  /\ nCreate' = nCreate + 1
  /\ \E st \in (IF tableExists THEN {"ERROR"} ELSE {"OK", "ERROR"}) :
       IF exec_error_check(st)
       THEN /\ Exit1("exec", st)
            /\ UNCHANGED <<clock, timing, reads_, saved_reads, params,
                           stmtIdx, tableExists, perWorkload, warnings,
                           completed>>
       ELSE /\ tableExists' = TRUE
            /\ Called("exec", st)
            /\ Enter(name)
            /\ UNCHANGED exitCode
  /\ UNCHANGED <<flags, fsys, startMicros, num_, rand_, benchmarks, name, created, n, i, j, keys,
                 key, todo, db_, rows, txOpen, synchronous, live, rowSeen,
                 nBegin, nEnd, nCheckpoint, summaries, taken>>

\* the list is used up: benchmark_run returns
RunDone ==
  /\ pc = "run_loop"
  /\ ListDone
  /\ pc' = "close"
  /\ UNCHANGED <<flags, fsys, wall, timing, num_, reads_, rand_, runl, params, locals,
                 eng, exitCode, lastCall, failedAt, counts, perWorkload, output>>

\* benchmark_fini; the engine refuses to close with live statements
benchmark_fini ==
  /\ pc = "close"
  /\ \E st \in (IF live # {} THEN {"ERROR"} ELSE {"OK", "ERROR"}) :
       IF error_check(st)
       THEN Fatal("close", st)
       ELSE /\ db_' = "closed"
            /\ pc' = "done"
            /\ exitCode' = 0
            /\ Called("close", st)
            /\ UNCHANGED <<flags, fsys, wall, timing, num_, reads_, rand_, runl, params,
                           locals, tableExists, rows, txOpen, synchronous,
                           live, rowSeen, counts, perWorkload, output>>


(***************************************************************************)
(* benchmark_write / benchmark_read / benchmark_delete.  The three         *)
(* functions have the same shape; op tells which one is running.           *)
(***************************************************************************)
\* the entry count of the chunk loop: num_entries, reads_ or num_
EntryCount ==
  IF op = "write" THEN num_entries
  ELSE IF op = "read" THEN reads_
  ELSE num_

\* the order of the three sqlite3_prepare_v2 calls
PrepareOrder ==
  IF op = "write" THEN <<"key", "begin", "end">> ELSE <<"begin", "end", "key">>

\* a bug: the BEGIN and END statements are never finalized
FinalizeOrder_KeyOnly == <<"key", "key", "key">>

\* the order of the three sqlite3_finalize calls
FinalizeOrder == <<"key", "begin", "end">>

\* what an index outside keys[0..n-1] can read
GarbageKeys == {-1, 0}

\* the strings snprintf(rate, strlen(rate), ...) can leave in the
\* uninitialised buffer
RateStrings == {"rate", ""}

\* PRAGMA synchronous = FULL / OFF
SyncPragma ==
  /\ pc = "sync_pragma"
  /\ \E st \in {"OK", "ERROR"} :
       IF exec_error_check(st)
       THEN Fatal("exec", st)
       ELSE /\ synchronous' = IF write_sync THEN "FULL" ELSE "OFF"
            /\ pc' = "prepare"
            /\ stmtIdx' = 1
            /\ Called("exec", st)
            /\ UNCHANGED <<flags, fsys, wall, timing, num_, reads_, rand_, runl, params,
                           n, i, j, keys, key, todo, db_, tableExists, rows,
                           txOpen, live, rowSeen, exitCode, counts,
                           perWorkload, output>>

\* where the chunk loop goes with n = nn: into a chunk (keys generated,
\* clock read) or, when the test fails, to the finalize calls
BeginTransactionWanted == FLAGS_transaction

ChunkOrFinish(nn) ==
  /\ n' = nn
  /\ i' = 0
  /\ j' = 0
  /\ IF ForTest(nn)
     THEN /\ keys' = gen_key(nn, order, rand_)[1]
          /\ rand_' = gen_key(nn, order, rand_)[2]
          /\ chunks' = Append(chunks, nn)
          /\ pc' = "start_clock"
          /\ UNCHANGED stmtIdx
     ELSE /\ pc' = "finalize"
          /\ stmtIdx' = 1
          /\ UNCHANGED <<keys, rand_, chunks>>

\* sqlite3_prepare_v2; a statement on a missing table does not prepare
Prepare ==
  /\ pc = "prepare"
  /\ LET stmt == PrepareOrder[stmtIdx] IN
     \E st \in (IF stmt = "key" /\ ~tableExists THEN {"ERROR"}
                ELSE {"OK", "ERROR"}) :
       IF error_check(st)
       THEN Fatal("prepare", st)
       ELSE /\ live' = live \cup {stmt}
            /\ Called("prepare", st)
            /\ IF stmtIdx < 3
               THEN /\ stmtIdx' = stmtIdx + 1
                    /\ UNCHANGED <<pc, n, i, j, keys, rand_, chunks>>
               ELSE ChunkOrFinish(ForInit(EntryCount))
            /\ UNCHANGED <<flags, fsys, wall, timing, num_, reads_, runl, params, key,
                           todo, db_, tableExists, rows, txOpen, synchronous,
                           rowSeen, exitCode, counts, elapsed, spent, execs, txExecs,
                           txSizes, stepped, found, oob, output>>

\* now_micros() at the end of a chunk: the wall clock never runs
\* backwards; now is the time when the last call of the chunk began
now_micros(now) ==
  {t \in now..(now + MaxElapsed) : t = now \/ t <= MaxClock}

\* double start = now_micros(), after gen_key and gen_value
StartClock ==
  /\ pc = "start_clock"
  /\ startMicros' = clock
  /\ pc' = IF BeginTransactionWanted THEN "begin_step" ELSE "bind_key"
  /\ UNCHANGED <<flags, fsys, clock, timing, num_, reads_, rand_, runl,
                 params, locals, eng, exitCode, lastCall, failedAt, counts,
                 perWorkload, output>>

\* sqlite3_step(begin_trans_stmt)
BeginStep ==
  /\ pc = "begin_step"
  /\ \E st \in (IF txOpen THEN {"ERROR"} ELSE {"DONE", "ERROR"}) :
       IF step_error_check(st)
       THEN Fatal("step", st)
       ELSE /\ txOpen' = TRUE
            /\ nBegin' = nBegin + 1
            /\ txExecs' = 0
            /\ pc' = "begin_reset"
            /\ Called("step", st)
            /\ UNCHANGED <<flags, fsys, wall, timing, num_, reads_, rand_, runl, params,
                           locals, db_, tableExists, rows, synchronous, live,
                           rowSeen, exitCode, nEnd, nCreate, nCheckpoint,
                           chunks, elapsed, spent, execs, txSizes, stepped, found,
                           oob, output>>

\* sqlite3_reset(begin_trans_stmt)
BeginReset ==
  /\ pc = "begin_reset"
  /\ \E st \in {"OK", "ERROR"} :
       IF error_check(st)
       THEN Fatal("reset", st)
       ELSE /\ pc' = "bind_key"
            /\ Called("reset", st)
            /\ UNCHANGED <<flags, fsys, wall, timing, num_, reads_, rand_, runl, params,
                           locals, eng, exitCode, counts, perWorkload,
                           output>>

\* sqlite3_bind_int(stmt, 1, keys[i + j]); an index that is not below n
\* reads whatever lies behind the array
BindKey ==
  /\ pc = "bind_key"
  /\ \E k \in (IF i + j < n THEN {keys[i + j + 1]} ELSE GarbageKeys),
        st \in {"OK", "ERROR"} :
       /\ key' = k
       /\ oob' = (oob \/ i + j >= n)
       /\ IF error_check(st)
          THEN Exit1("bind", st)
          ELSE /\ pc' = IF op = "write" THEN "bind_value" ELSE "step"
               /\ Called("bind", st)
               /\ UNCHANGED exitCode
  /\ UNCHANGED <<flags, fsys, wall, timing, num_, reads_, rand_, runl, params, n, i, j,
                 keys, stmtIdx, todo, eng, counts, chunks, elapsed, spent, execs,
                 txExecs, txSizes, stepped, found, output>>

\* sqlite3_bind_blob(replace_stmt, 2, values[i + j], value_size, ...)
BindValue ==
  /\ pc = "bind_value"
  /\ \E st \in {"OK", "ERROR"} :
       IF error_check(st)
       THEN Fatal("bind", st)
       ELSE /\ pc' = "step"
            /\ Called("bind", st)
            /\ UNCHANGED <<flags, fsys, wall, timing, num_, reads_, rand_, runl, params,
                           locals, eng, exitCode, counts, perWorkload,
                           output>>


\* a bug: the time of the first reading is not subtracted
Accumulate_NoStart(total, first, last) == total + last

\* op_total_time_ += end - start
Accumulate(total, first, last) == total + (last - first)

\* double end = now_micros(), after the chunk: the elapsed time is added to
\* the total and the loop goes on with n - MAXNUMPERTIME
ChunkEnd ==
  \E t \in now_micros(clock) :
    /\ clock' = t
    /\ op_total_time_' = Accumulate(op_total_time_, startMicros, t)
    /\ elapsed' = Append(elapsed, t - startMicros)
    /\ spent' = spent + (t - clock)
    /\ ChunkOrFinish(ForUpdate(n))

\* a bug: END TRANSACTION is left out
EndTransactionWanted_Never == FALSE

EndTransactionWanted == FLAGS_transaction

\* the ends of the loops over j and i, and what follows the batches
LoopAdvance ==
  IF j + 1 < entries_per_batch
  THEN /\ j' = j + 1
       /\ pc' = "bind_key"
       /\ UNCHANGED <<n, i, keys, rand_, chunks, stmtIdx, op_total_time_,
                      elapsed, spent, clock>>
  ELSE IF i + entries_per_batch < n
  THEN /\ i' = i + entries_per_batch
       /\ j' = 0
       /\ pc' = "bind_key"
       /\ UNCHANGED <<n, keys, rand_, chunks, stmtIdx, op_total_time_,
                      elapsed, spent, clock>>
  ELSE IF EndTransactionWanted
  THEN /\ pc' = "end_step"
       /\ UNCHANGED <<n, i, j, keys, rand_, chunks, stmtIdx, op_total_time_,
                      elapsed, spent, clock>>
  ELSE ChunkEnd

\* a bug: every workload counts bytes
BytesPerOp_AllOps(o, vs) == vs + 4

\* bytes_ += value_size + sizeof(int), in benchmark_write only
BytesPerOp(o, vs) == IF o = "write" THEN vs + 4 ELSE 0

\* sqlite3_step of the key statement.  benchmark_write adds to bytes_
\* before the call and takes any status but SQLITE_DONE as an error;
\* benchmark_read and benchmark_delete step again while the status is
\* SQLITE_ROW.  A value pointer read outside values[0..n-1] may fault.
Step ==
  /\ pc = "step"
  /\ bytes_' = bytes_ + BytesPerOp(op, value_size)
  /\ \/ \E st \in (IF op = "read" /\ key \in rows /\ ~rowSeen
                   THEN {"ROW", "ERROR"} ELSE {"DONE", "ERROR"}) :
          IF op # "write" /\ st = "ROW"
          THEN /\ rowSeen' = TRUE
               /\ found' = found \cup {key}
               /\ Called("step", st)
               /\ UNCHANGED <<pc, exitCode, rows, execs, txExecs, stepped>>
          ELSE IF step_error_check(st)
          THEN /\ Exit1("step", st)
               /\ UNCHANGED <<rowSeen, found, rows, execs, txExecs, stepped>>
          ELSE /\ rows' = IF op = "write" THEN rows \cup {key}
                          ELSE IF op = "delete" THEN rows \ {key}
                          ELSE rows
               /\ rowSeen' = FALSE
               /\ execs' = execs + 1
               /\ txExecs' = txExecs + 1
               /\ stepped' = Append(stepped, key)
               /\ pc' = "clear"
               /\ Called("step", st)
               /\ UNCHANGED <<exitCode, found>>
     \/ /\ op = "write" /\ i + j >= n
        /\ pc' = "crashed"
        /\ exitCode' = "signal"
        /\ UNCHANGED <<lastCall, failedAt, rowSeen, found, rows, execs,
                       txExecs, stepped>>
  /\ UNCHANGED <<flags, fsys, wall, op_total_time_, message_, done_, next_report_, progress,
                 num_,
                 reads_, rand_, runl, params, locals, db_, tableExists,
                 txOpen, synchronous, live, counts, chunks, elapsed, spent, txSizes,
                 oob, output>>

\* sqlite3_clear_bindings
ClearBindings ==
  /\ pc = "clear"
  /\ \E st \in {"OK", "ERROR"} :
       IF error_check(st)
       THEN Fatal("clear", st)
       ELSE /\ pc' = "reset"
            /\ Called("clear", st)
            /\ UNCHANGED <<flags, fsys, wall, timing, num_, reads_, rand_, runl, params,
                           locals, eng, exitCode, counts, perWorkload,
                           output>>

\* sqlite3_reset of the key statement, finish_single_op(), loop ends
Reset ==
  /\ pc = "reset"
  /\ \E st \in {"OK", "ERROR"} :
       IF error_check(st)
       THEN Fatal("reset", st)
       ELSE /\ done_' = finish_single_op(done_, next_report_)[1]
            /\ next_report_' = finish_single_op(done_, next_report_)[2]
            /\ progress' = IF finish_single_op(done_, next_report_)[3]
                           THEN Append(progress, done_ + 1) ELSE progress
            /\ LoopAdvance
            /\ Called("reset", st)
            /\ UNCHANGED <<flags, fsys, startMicros, bytes_, message_, num_, reads_, runl,
                           params, key, todo, eng, exitCode, counts, execs,
                           txExecs, txSizes, stepped, found, oob, output>>

\* sqlite3_step(end_trans_stmt)
EndStep ==
  /\ pc = "end_step"
  /\ \E st \in (IF txOpen THEN {"DONE", "ERROR"} ELSE {"ERROR"}) :
       IF step_error_check(st)
       THEN Fatal("step", st)
       ELSE /\ txOpen' = FALSE
            /\ nEnd' = nEnd + 1
            /\ txSizes' = Append(txSizes, txExecs)
            /\ pc' = "end_reset"
            /\ Called("step", st)
            /\ UNCHANGED <<flags, fsys, wall, timing, num_, reads_, rand_, runl, params,
                           locals, db_, tableExists, rows, synchronous, live,
                           rowSeen, exitCode, nBegin, nCreate, nCheckpoint,
                           chunks, elapsed, spent, execs, txExecs, stepped, found,
                           oob, output>>

\* sqlite3_reset(end_trans_stmt), then the end of the chunk
EndReset ==
  /\ pc = "end_reset"
  /\ \E st \in {"OK", "ERROR"} :
       IF error_check(st)
       THEN Fatal("reset", st)
       ELSE /\ ChunkEnd
            /\ Called("reset", st)
            /\ UNCHANGED <<flags, fsys, startMicros, bytes_, message_, done_, next_report_,
                           progress, num_, reads_, runl, params, key,
                           todo, eng,
                           exitCode, counts, execs, txExecs, txSizes, stepped,
                           found, oob, output>>

(***************************************************************************)
(* stop(name): the summary lines.  The rate string is written with         *)
(* snprintf(rate, strlen(rate), ...) into a buffer that was never          *)
(* initialised; it replaces the message unless the message is empty, in    *)
(* which case the (empty) message is appended to it.                       *)
(***************************************************************************)
stop ==
  /\ done_' = IF done_ < 1 THEN 1 ELSE done_
  /\ IF bytes_ > 0
     THEN \E rate \in RateStrings :
            message_' = IF message_ = <<>>
                        THEN <<rate, " ">> \o message_
                        ELSE <<rate>>
     ELSE UNCHANGED message_
  /\ summaries' = Append(summaries, name)
  /\ completed' = completed + 1
  /\ pc' = "run_loop"

\* a bug: the checkpoint is forced whatever the journal mode
CheckpointWanted_Always == TRUE

\* wal_checkpoint(db_) does nothing unless WAL is enabled
CheckpointWanted == FLAGS_WAL_enabled

\* the workload function returns to benchmark_run
Return ==
  /\ reads_' = IF name = "readrand100K" THEN saved_reads ELSE reads_
  /\ IF op \in {"write", "delete"} /\ CheckpointWanted
     THEN /\ pc' = "checkpoint"
          /\ UNCHANGED <<done_, message_, summaries, completed>>
     ELSE stop

\* sqlite3_finalize of the three statements
Finalize ==
  /\ pc = "finalize"
  /\ \E st \in {"OK", "ERROR"} :
       IF error_check(st)
       THEN Fatal("finalize", st)
       ELSE /\ live' = live \ {FinalizeOrder[stmtIdx]}
            /\ Called("finalize", st)
            /\ IF stmtIdx < 3
               THEN /\ stmtIdx' = stmtIdx + 1
                    /\ UNCHANGED <<pc, reads_, done_, message_, summaries,
                                   completed>>
               ELSE /\ Return
                    /\ UNCHANGED stmtIdx
            /\ UNCHANGED <<flags, fsys, wall, op_total_time_, bytes_, next_report_, progress,
                           num_,
                           rand_, runl, params, n, i, j, keys, key, todo, db_,
                           tableExists, rows, txOpen, synchronous, rowSeen,
                           exitCode, counts, perWorkload, warnings,
                           taken>>

\* sqlite3_wal_checkpoint_v2: the status is not looked at; then stop(name)
Checkpoint ==
  /\ pc = "checkpoint"
  /\ \E st \in {"OK", "ERROR"} :
       /\ Called("checkpoint", st)
       /\ nCheckpoint' = nCheckpoint + 1
       /\ stop
  /\ UNCHANGED <<flags, fsys, wall, op_total_time_, bytes_, next_report_, progress, num_,
                 reads_,
                 rand_, runl, params, locals, eng, exitCode, nBegin, nEnd,
                 nCreate, perWorkload, warnings, taken>>

\* the states in which the process has ended
Ended == {"done", "aborted", "crashed", "help", "invalid"}

Next ==
  \/ benchmark_init
  \/ OpenDb
  \/ OpenExec
  \/ RunNext
  \/ CreateTable
  \/ SyncPragma
  \/ Prepare
  \/ BeginStep
  \/ BeginReset
  \/ BindKey
  \/ BindValue
  \/ Step
  \/ ClearBindings
  \/ Reset
  \/ EndStep
  \/ EndReset
  \/ Finalize
  \/ Checkpoint
  \/ RunDone
  \/ benchmark_fini
  \/ StartClock

Spec == Init /\ [][Next]_vars

(***************************************************************************)
(* The runs of one workload with a clock that goes on at any time; in the  *)
(* specification above time passes during the last call of a chunk only.   *)
(***************************************************************************)
\* the positions between the two readings of the clock of a chunk
Timed ==
  {"begin_step", "begin_reset", "bind_key", "bind_value", "step", "clear",
   "reset", "end_step", "end_reset"}

\* time passes while the process runs, whatever it is doing
Tick ==
  /\ pc \notin Ended
  /\ clock < MaxClock
  /\ clock' = clock + 1
  /\ spent' = IF pc \in Timed THEN spent + 1 ELSE spent
  /\ UNCHANGED <<flags, fsys, startMicros, timing, num_, reads_, rand_, runl,
                 params, locals, eng, ctl, counts, chunks, elapsed, execs,
                 txExecs, txSizes, stepped, found, oob, output>>

\* the runs of one workload, with the read count left to the entry count
InitClock ==
  /\ Init
  /\ Len(FLAGS_benchmarks) = 1 /\ rand_ = 1
  /\ FLAGS_reads = -1

NextClock == Tick \/ Next

SpecClock == InitClock /\ [][NextClock]_vars

(***************************************************************************)
(* The progress counter on its own: start(), then finish_single_op() MaxOps *)
(* times.  The workload that makes the calls is left out (MAXNUMPERTIME    *)
(* is scaled down in the specification above, so no run of it reaches the  *)
(* first threshold).                                                       *)
(***************************************************************************)
InitProgress ==
  /\ FLAGS_benchmarks = <<"fillseq">> /\ FLAGS_num = MaxOps
  /\ FLAGS_reads = -1 /\ FLAGS_value_size = DefaultValueSize
  /\ FLAGS_use_existing_db = FALSE /\ FLAGS_transaction = TRUE
  /\ FLAGS_WAL_enabled = TRUE
  /\ argv = <<>> /\ argi = 1
  /\ FLAGS_db = DefaultDb /\ files = InitFiles /\ file_name = <<>>
  /\ clock = 0 /\ startMicros = 0 /\ spent = 0
  /\ db_ = "open" /\ num_ = MaxOps /\ reads_ = MaxOps /\ rand_ = 1
  \* start()
  /\ bytes_ = 0 /\ message_ = <<>> /\ done_ = 0 /\ next_report_ = 100
  /\ op_total_time_ = 0
  /\ progress = <<>>
  /\ benchmarks = <<>> /\ name = "fillseq" /\ saved_reads = 0
  /\ created = TRUE
  /\ op = "write" /\ write_sync = FALSE /\ order = SEQUENTIAL
  /\ num_entries = MaxOps /\ value_size = DefaultValueSize
  /\ entries_per_batch = 1
  /\ n = 0 /\ i = 0 /\ j = 0 /\ keys = <<>> /\ key = 0 /\ stmtIdx = 0
  /\ todo = <<>>
  /\ tableExists = TRUE /\ rows = {} /\ txOpen = FALSE
  /\ synchronous = "OFF" /\ live = {} /\ rowSeen = FALSE
  /\ pc = "ops" /\ exitCode = "none" /\ lastCall = NoCall /\ failedAt = 0
  /\ nBegin = 0 /\ nEnd = 0 /\ nCreate = 1 /\ nCheckpoint = 0
  /\ chunks = <<>> /\ elapsed = <<>> /\ execs = 0 /\ txExecs = 0
  /\ txSizes = <<>> /\ stepped = <<>> /\ found = {} /\ oob = FALSE
  /\ summaries = <<>> /\ warnings = <<>> /\ taken = 1 /\ completed = 0

\* one call of finish_single_op()
FinishSingleOp ==
  /\ pc = "ops"
  /\ done_ < MaxOps
  /\ done_' = finish_single_op(done_, next_report_)[1]
  /\ next_report_' = finish_single_op(done_, next_report_)[2]
  /\ progress' = IF finish_single_op(done_, next_report_)[3]
                 THEN Append(progress, done_ + 1) ELSE progress
  /\ UNCHANGED <<flags, fsys, wall, op_total_time_, bytes_, message_, num_, reads_,
                 rand_, runl, params, locals, eng, ctl, counts, perWorkload,
                 output>>

NextProgress == FinishSingleOp

SpecProgress == InitProgress /\ [][NextProgress]_vars

(***************************************************************************)
(* main: init() and the loop over the arguments.  An argument is the flag  *)
(* it starts with and the text after the flag: has tells whether the text  *)
(* starts with a number, int is that number, junk whether characters       *)
(* follow it; names is the text as a list of workload names.               *)
(***************************************************************************)
Arg(f, h, v, jk, nms) ==
  [flag |-> f, has |-> h, int |-> v, junk |-> jk, names |-> nms]

\* the arguments that are enumerated
Args ==
  {Arg("--benchmarks=", FALSE, 0, FALSE, <<"fillseq", "readseq">>),
   Arg("--num=", TRUE, 1, FALSE, <<>>),             \* --num=1
   Arg("--num=", TRUE, 12, TRUE, <<>>),             \* --num=12x
   Arg("--num=", FALSE, 0, FALSE, <<>>),            \* --num=
   Arg("--reads=", TRUE, 1, FALSE, <<>>),           \* --reads=1
   Arg("--use_existing_db=", TRUE, 1, FALSE, <<>>), \* --use_existing_db=1
   Arg("--use_existing_db=", TRUE, 2, FALSE, <<>>), \* --use_existing_db=2
   Arg("--WAL_enabled=", TRUE, 0, FALSE, <<>>),     \* --WAL_enabled=0
   Arg("--compression_ratio=", FALSE, 0, TRUE, <<>>), \* ..ratio=x
   Arg("--no_transaction", FALSE, 0, FALSE, <<>>),
   Arg("--db=", FALSE, 0, TRUE, <<"bench", "/">>),  \* --db=bench/
   Arg("--db=", FALSE, 0, TRUE, <<"bench">>),       \* --db=bench
   Arg("--db=", FALSE, 0, TRUE, <<"bench", "/", "other.db">>),
   Arg("--help", FALSE, 0, FALSE, <<>>),
   Arg("--bogus", FALSE, 0, FALSE, <<>>)}

RECURSIVE ArgLists(_)
ArgLists(k) ==
  IF k = 0 THEN {<<>>}
  ELSE ArgLists(k - 1)
       \cup {Append(l, a) : l \in ArgLists(k - 1), a \in Args}

\* the default workload list of init(); it ends with a comma, so its last
\* name is the empty one
DefaultBenchmarks ==
  <<"fillseq", "fillseqsync", "fillrandom", "fillrandsync", "overwrite",
    "overwritesync", "readrandom", "readseq", "fillrand100K", "fillseq100K",
    "readseq", "readrand100K", "delete", "deletesync", "">>

\* sscanf(argv[i], "<flag>%d%c", &n, &junk) (or %lf): the number of items
\* assigned, 0 or EOF when the text does not start with the flag and a
\* number
sscanf(a, f) ==
  IF a.flag # f \/ ~a.has THEN 0
  ELSE IF a.junk THEN 2
  ELSE 1

\* a bug: a number followed by other characters is accepted
Matches_Some(r) == r >= 1

\* sscanf(...) == 1
Matches(r) == r = 1

\* the flags as a record; exit is "no" while the process goes on
CurFlags ==
  [benchmarks |-> FLAGS_benchmarks, num |-> FLAGS_num,
   reads |-> FLAGS_reads, value_size |-> FLAGS_value_size,
   use_existing_db |-> FLAGS_use_existing_db,
   transaction |-> FLAGS_transaction, WAL_enabled |-> FLAGS_WAL_enabled,
   db |-> FLAGS_db, exit |-> "no"]

\* the body of the loop: the chain of tests on argv[i].  The flags that
\* the model does not hold (compression ratio, page size, number of
\* pages, sqlcipher, key) are examined and change nothing.
main_arg(a, F) ==
  IF a.flag = "--benchmarks=" THEN [F EXCEPT !.benchmarks = a.names]
  ELSE IF Matches(sscanf(a, "--compression_ratio=")) THEN F
  ELSE IF Matches(sscanf(a, "--use_existing_db=")) /\ a.int \in {0, 1}
    THEN [F EXCEPT !.use_existing_db = (a.int = 1)]
  ELSE IF Matches(sscanf(a, "--num=")) THEN [F EXCEPT !.num = a.int]
  ELSE IF Matches(sscanf(a, "--reads=")) THEN [F EXCEPT !.reads = a.int]
  ELSE IF Matches(sscanf(a, "--value_size="))
    THEN [F EXCEPT !.value_size = a.int]
  ELSE IF a.flag = "--no_transaction" THEN [F EXCEPT !.transaction = FALSE]
  ELSE IF Matches(sscanf(a, "--page_size=")) THEN F
  ELSE IF Matches(sscanf(a, "--num_pages=")) THEN F
  ELSE IF Matches(sscanf(a, "--WAL_enabled=")) /\ a.int \in {0, 1}
    THEN [F EXCEPT !.WAL_enabled = (a.int = 1)]
  ELSE IF Matches(sscanf(a, "--use_sqlcipher=")) /\ a.int \in {0, 1} THEN F
  ELSE IF a.flag = "--db=" THEN [F EXCEPT !.db = a.names]
  ELSE IF a.flag = "--key=" THEN F
  ELSE IF a.flag = "--help" THEN [F EXCEPT !.exit = "0"]
  ELSE [F EXCEPT !.exit = "1"]

\* init(), and the arguments main is called with; the database directory
\* may hold a database with the table
InitArgs ==
  /\ FLAGS_benchmarks = DefaultBenchmarks /\ FLAGS_num = DefaultNum
  /\ FLAGS_reads = -1 /\ FLAGS_value_size = DefaultValueSize
  /\ FLAGS_use_existing_db = FALSE /\ FLAGS_transaction = TRUE
  /\ FLAGS_WAL_enabled = TRUE
  /\ argv \in ArgLists(MaxArgs) /\ argi = 1
  /\ FLAGS_db = <<>> /\ files = InitFiles /\ file_name = <<>>
  /\ clock = 0 /\ startMicros = 0 /\ spent = 0
  /\ db_ = "NULL" /\ num_ = 0 /\ reads_ = 0 /\ rand_ = 1
  /\ bytes_ = 0 /\ message_ = <<>> /\ done_ = 0 /\ next_report_ = 0
  /\ op_total_time_ = 0 /\ progress = <<>>
  /\ benchmarks = <<>> /\ name = "" /\ saved_reads = 0 /\ created = FALSE
  /\ op = "none" /\ write_sync = FALSE /\ order = SEQUENTIAL
  /\ num_entries = 0 /\ value_size = 0 /\ entries_per_batch = 1
  /\ n = 0 /\ i = 0 /\ j = 0 /\ keys = <<>> /\ key = 0 /\ stmtIdx = 0
  /\ todo = <<>>
  /\ tableExists \in BOOLEAN /\ rows = {} /\ txOpen = FALSE
  /\ synchronous = "default" /\ live = {} /\ rowSeen = FALSE
  /\ pc = "args" /\ exitCode = "none" /\ lastCall = NoCall /\ failedAt = 0
  /\ nBegin = 0 /\ nEnd = 0 /\ nCreate = 0 /\ nCheckpoint = 0
  /\ chunks = <<>> /\ elapsed = <<>> /\ execs = 0 /\ txExecs = 0
  /\ txSizes = <<>> /\ stepped = <<>> /\ found = {} /\ oob = FALSE
  /\ summaries = <<>> /\ warnings = <<>> /\ taken = 0 /\ completed = 0

\* one pass of the loop over the arguments
ParseArg ==
  /\ pc = "args"
  /\ argi <= Len(argv)
  /\ LET r == main_arg(argv[argi], CurFlags) IN
       /\ FLAGS_benchmarks' = r.benchmarks
       /\ FLAGS_num' = r.num
       /\ FLAGS_reads' = r.reads
       /\ FLAGS_value_size' = r.value_size
       /\ FLAGS_use_existing_db' = r.use_existing_db
       /\ FLAGS_transaction' = r.transaction
       /\ FLAGS_WAL_enabled' = r.WAL_enabled
       /\ FLAGS_db' = r.db
       /\ IF r.exit = "no"
          THEN pc' = "args" /\ UNCHANGED exitCode
          ELSE /\ pc' = IF r.exit = "0" THEN "help" ELSE "invalid"
               /\ exitCode' = IF r.exit = "0" THEN 0 ELSE 1
  /\ argi' = argi + 1
  /\ UNCHANGED <<argv, fsys, wall, timing, num_, reads_, rand_, runl, params, locals,
                 eng, lastCall, failedAt, counts, perWorkload, output>>

\* the end of the loop: main goes on to benchmark_init()
ArgsDone ==
  /\ pc = "args"
  /\ argi > Len(argv)
  \* FLAGS_db == NULL: the default path
  /\ FLAGS_db' = IF FLAGS_db = <<>> THEN DefaultDb ELSE FLAGS_db
  /\ pc' = "init"
  /\ UNCHANGED <<FLAGS_benchmarks, FLAGS_num, FLAGS_reads, FLAGS_value_size,
                 FLAGS_use_existing_db, FLAGS_transaction, FLAGS_WAL_enabled,
                 argv, argi, fsys, wall, timing, num_, reads_, rand_, runl, params,
                 locals, eng, exitCode, lastCall, failedAt, counts,
                 perWorkload, output>>

NextArgs ==
  \/ ParseArg
  \/ ArgsDone
  \/ Next

SpecArgs == InitArgs /\ [][NextArgs]_vars


(***************************************************************************)
(* Properties.                                                             *)
(***************************************************************************)
RECURSIVE SumSeq(_)
SumSeq(q) == IF q = <<>> THEN 0 ELSE Head(q) + SumSeq(Tail(q))

\* the chunk sizes the specification gives for E entries
RECURSIVE ChunksOf(_)
ChunksOf(E) ==
  IF E <= 0 THEN <<>>
  ELSE IF E > MAXNUMPERTIME
  THEN <<MAXNUMPERTIME>> \o ChunksOf(E - MAXNUMPERTIME)
  ELSE <<E>>

\* the chunk loop of the running workload has ended without an abort
LoopEnded == pc = "finalize" /\ stmtIdx = 1

\* the read count after benchmark_init
ResolvedReads == IF FLAGS_reads < 0 THEN FLAGS_num ELSE FLAGS_reads

\* C1: a workload of E > MAXNUMPERTIME entries runs as floor(E/M) chunks of
\* M entries and, when E mod M > 0, one more of E mod M entries, and the
\* total time of the workload is the sum of the chunks' elapsed times.
C1_ChunksCoverAllEntries ==
  (LoopEnded /\ EntryCount > MAXNUMPERTIME) =>
     /\ chunks = ChunksOf(EntryCount)
     /\ Len(elapsed) = Len(chunks)
     /\ op_total_time_ = SumSeq(elapsed)

\* C2: when a workload ends without an engine error, the number of
\* executions of its key statement, and done_, equal its entry count.
C2_OneExecutionPerEntry ==
  (LoopEnded /\ EntryCount >= 0) =>
     /\ execs = EntryCount
     /\ done_ = EntryCount

\* C3: fillseq with N entries on a fresh database, transactions enabled,
\* leaves exactly the keys 0..N-1 in the table, and a readseq of N reads
\* that follows binds and finds every key 0..N-1.
C3_FillseqThenReadseq ==
  (/\ FLAGS_benchmarks = <<"fillseq", "readseq">>
   /\ ~FLAGS_use_existing_db
   /\ FLAGS_transaction
   /\ FLAGS_num >= 0
   /\ ResolvedReads = FLAGS_num
   /\ LoopEnded) =>
     /\ rows = 0..(FLAGS_num - 1)
     /\ name = "readseq" =>
          /\ stepped = [p \in 1..FLAGS_num |-> p - 1]
          /\ found = 0..(FLAGS_num - 1)

\* the positions at which a transaction is open when transactions are on
InTransaction ==
  {"begin_reset", "bind_key", "bind_value", "step", "clear", "reset",
   "end_step"}

\* C4: with transactions enabled BEGIN and END are paired: in a run that
\* has not aborted a transaction is open exactly from the BEGIN of a chunk
\* to its END, so every key statement runs inside one and none is open
\* when statements are finalized or the next workload starts; with
\* transactions disabled no BEGIN or END is ever issued.
C4_TransactionsPaired ==
  /\ nBegin - nEnd = (IF txOpen THEN 1 ELSE 0)
  /\ ~FLAGS_transaction => nBegin = 0 /\ nEnd = 0
  /\ (FLAGS_transaction /\ pc \notin {"aborted", "crashed"}) =>
       (txOpen <=> pc \in InTransaction)

C4_Witness ==
  /\ FLAGS_transaction
  /\ pc = "done"
  /\ nBegin = 2 /\ nEnd = 2
  /\ Len(summaries) = 2

\* C5: with transactions enabled every BEGIN/END pair commits exactly
\* entries-per-batch executions of the key statement.
C5_EntriesPerTransaction ==
  \A k \in 1..Len(txSizes) : txSizes[k] = entries_per_batch


\* the write workloads that need a fresh table
FreshNames == WriteNames \ {"overwrite", "overwritesync", "overwritebatch"}

\* the names benchmark_run has cut off the list so far
Taken == SubSeq(FLAGS_benchmarks, 1, taken)

HasFresh(q) == \E k \in 1..Len(q) : q[k] \in FreshNames

\* C6: CREATE TABLE is issued at most once in a run: before the first
\* workload that needs a fresh table starts, never again for a later one,
\* and never for an overwrite, a read, a delete or an unknown name.
C6_SchemaCreatedOnce ==
  /\ nCreate = (IF HasFresh(Taken) /\ pc # "create" THEN 1 ELSE 0)
  /\ pc = "create" =>
       /\ name \in FreshNames
       /\ ~HasFresh(SubSeq(Taken, 1, Len(Taken) - 1))

C6_Witness ==
  /\ FLAGS_benchmarks = <<"fillseq", "fillrandom">>
  /\ pc = "done"
  /\ nCreate = 1
  /\ summaries = <<"fillseq", "fillrandom">>

\* the next name of the list is not in the table
UnknownNext ==
  pc = "run_loop" /\ benchmarks # <<>> /\ Head(benchmarks) \notin KnownNames

\* C7: a name that is not in the table is skipped: no engine call is made,
\* zero operations and zero time are counted, no summary is printed, the
\* warning is printed exactly when the name is not empty, and the loop
\* goes on with the rest of the list.
C7_UnknownNameSkipped ==
  [][UnknownNext =>
       /\ pc' = "run_loop"
       /\ benchmarks' = Tail(benchmarks)
       /\ taken' = taken + 1
       /\ UNCHANGED <<lastCall, failedAt, counts, eng, summaries, exitCode>>
       /\ execs' = 0 /\ done_' = 0 /\ op_total_time_' = 0 /\ chunks' = <<>>
       /\ warnings' = IF Head(benchmarks) # ""
                      THEN Append(warnings, Head(benchmarks))
                      ELSE warnings]_vars

C7_Witness ==
  /\ FLAGS_benchmarks = <<"bogus", "fillseq">>
  /\ pc = "done"
  /\ warnings = <<"bogus">>
  /\ summaries = <<"fillseq">>

\* C8: readrand100K performs reads / 1000 read operations, and reads_ has
\* its initial value whenever a workload starts.
C8_ReadCountRestored ==
  /\ pc \in {"run_loop", "create", "close", "done"} => reads_ = ResolvedReads
  /\ (name = "readrand100K" /\ LoopEnded /\ ResolvedReads >= 0) =>
        execs = CDiv(ResolvedReads, Per100K)

\* a call made through open, exec, prepare, step or finalize has failed
CheckedApis == {"open", "exec", "prepare", "step", "finalize"}

Failed(c) == c.api \in CheckedApis /\ c.status \notin Success

\* C9: a failure status from open, exec, prepare, step or finalize ends
\* the process with exit code 1 at that call: the state after the call is
\* the aborted state, and nothing is done after it.
C9_EngineFailureIsFatal ==
  [][/\ ~Failed(lastCall)
     /\ Failed(lastCall') => pc' = "aborted" /\ exitCode' = 1]_vars

C9_Witness ==
  /\ pc = "aborted"
  /\ exitCode = 1
  /\ lastCall = [api |-> "step", status |-> "ERROR"]
  /\ execs = 1
  /\ Len(summaries) = 1

IsKnown(nm) == nm \in KnownNames

CountNames(k, S) == Cardinality({p \in 1..k : FLAGS_benchmarks[p] \in S})

\* C11 (as stated): a full WAL checkpoint is forced exactly after the
\* completed workloads whose operation is a write, when WAL is enabled:
\* one per such workload, after its statements are finalized and before
\* its summary and the next workload; none with WAL disabled and none for
\* a workload whose operation is not a write.
C11_CheckpointAfterWriteOnly ==
  /\ nCheckpoint = (IF FLAGS_WAL_enabled
                    THEN CountNames(completed, WriteNames) ELSE 0)
  /\ pc = "checkpoint" =>
       /\ FLAGS_WAL_enabled
       /\ op = "write"
       /\ live = {}
       /\ completed = taken - 1

\* C11 (amended): the checkpoint is forced exactly after the completed
\* workloads whose operation is a write or a delete, when WAL is enabled:
\* one per such workload, after its statements are finalized and before
\* its summary and the next workload; none with WAL disabled and none for
\* a read workload or an unknown name.
C11_CheckpointAfterModifying ==
  /\ nCheckpoint = (IF FLAGS_WAL_enabled
                    THEN CountNames(completed, WriteNames \cup DeleteNames)
                    ELSE 0)
  /\ pc = "checkpoint" =>
       /\ FLAGS_WAL_enabled
       /\ op \in {"write", "delete"}
       /\ live = {}
       /\ completed = taken - 1

C11_Witness ==
  /\ FLAGS_WAL_enabled
  /\ FLAGS_benchmarks = <<"fillseq", "readseq">>
  /\ pc = "done"
  /\ nCheckpoint = 1
  /\ summaries = <<"fillseq", "readseq">>


\* the names of the table that carry 'sync'
SyncNames == {"fillseqsync", "fillrandsync", "overwritesync", "deletesync"}

\* the positions of a write or delete workload after its pragma
AfterPragma ==
  {"prepare", "begin_step", "begin_reset", "bind_key", "bind_value", "step",
   "clear", "reset", "end_step", "end_reset", "finalize", "checkpoint"}

\* C12: a write or delete workload runs with synchronous = FULL when its
\* name carries 'sync' and with synchronous = OFF otherwise; the pragma
\* is issued before any of its statements is prepared or executed, so an
\* earlier workload's setting never reaches a later write or delete.
C12_SyncFollowsName ==
  /\ (op \in {"write", "delete"} /\ pc \in AfterPragma) =>
       synchronous = (IF name \in SyncNames THEN "FULL" ELSE "OFF")
  /\ pc = "sync_pragma" => execs = 0 /\ live = {}

C12_Witness ==
  /\ FLAGS_benchmarks = <<"fillseqsync", "fillseq">>
  /\ name = "fillseq"
  /\ pc = "step"
  /\ synchronous = "OFF"
  /\ rows = {0}


\* C13: the driver makes one pass over the list: the connection is opened
\* once, before the first name is taken; the names are taken one at a
\* time in list order, each after the one before it has finished (its
\* statements finalized, its summary printed when it is a known name);
\* the connection is closed once, after the last name; and with the empty
\* list (the list of the one empty name) nothing is executed between the
\* open and the close.
C13_OnePassOverList ==
  /\ [](/\ taken \in 0..Len(FLAGS_benchmarks)
        /\ taken > 0 => name = FLAGS_benchmarks[taken]
        /\ completed \in {taken - 1, taken} \cap 0..taken
        /\ pc = "done" =>
             /\ taken = Len(FLAGS_benchmarks)
             /\ completed = taken
             /\ db_ = "closed"
             /\ FLAGS_benchmarks = <<"">> =>
                  /\ summaries = <<>> /\ warnings = <<>>
                  /\ execs = 0 /\ nCreate = 0 /\ rows = {})
  /\ [][/\ db_' # db_ =>
             \/ db_ = "NULL" /\ db_' = "open" /\ taken = 0
             \/ /\ db_ = "open" /\ db_' = "closed"
                /\ taken = Len(FLAGS_benchmarks) /\ completed = taken
        /\ taken' # taken =>
             /\ taken' = taken + 1
             /\ completed = taken
             /\ Len(summaries) = CountNames(taken, KnownNames)
             /\ live = {}
             /\ db_ = "open"]_vars

C13_Witness ==
  /\ FLAGS_benchmarks = <<"fillseq", "bogus">>
  /\ pc = "done"
  /\ db_ = "closed"
  /\ taken = 2
  /\ summaries = <<"fillseq">>


\* the positions between the workloads, before the first and after the last
BetweenWorkloads ==
  {"init", "open", "open_exec", "run_loop", "create", "sync_pragma",
   "checkpoint", "close", "done"}

\* the positions inside the chunk loop of a workload
InChunk ==
  {"begin_step", "begin_reset", "bind_key", "bind_value", "step", "clear",
   "reset", "end_step", "end_reset"}

\* C14: the prepared statements belong to one workload: no statement is
\* live between workloads or when the connection is closed, the key,
\* BEGIN and END statements are all live whenever one of them is bound or
\* stepped, and no statement stays live across the step that takes the
\* next name, so a statement is only stepped by the workload that
\* prepared it.
C14_StatementsOwnedByWorkload ==
  /\ [](/\ pc \in BetweenWorkloads => live = {}
        /\ pc \in InChunk => live = {"key", "begin", "end"})
  /\ [][/\ taken' # taken => live = {} /\ live' = {}
        /\ live' # live => taken' = taken /\ name' = name]_vars

C14_Witness ==
  /\ FLAGS_benchmarks = <<"fillseq", "readrandom">>
  /\ pc = "close"
  /\ live = {}
  /\ execs = 1
  /\ summaries = <<"fillseq", "readrandom">>


\* C15: after benchmark_init the entry count num_ and the read count
\* reads_ are not negative, for every --num and --reads the argument
\* loop accepts.
C15_CountsNonNegative ==
  pc # "init" => num_ >= 0 /\ reads_ >= 0


\* the PRNG state after k draws
RECURSIVE Draws(_, _)
Draws(seed, k) == IF k = 0 THEN seed ELSE rand_next(Draws(seed, k - 1))

\* C16: gen_key(keys, count, order) fills the positions 0..count-1: in
\* sequential order position i holds i and the PRNG state is untouched;
\* in random order position i holds the (i+1)-th draw modulo count, a
\* value in [0, count), and the PRNG state has advanced by count draws.
C16_GenKeyFillsPositions ==
  [][Len(chunks') = Len(chunks) + 1 =>
       /\ Len(keys') = n'
       /\ order = SEQUENTIAL =>
            /\ keys' = [p \in 1..n' |-> p - 1]
            /\ rand_' = rand_
       /\ order = RANDOM =>
            /\ \A p \in 1..n' :
                 /\ keys'[p] = Draws(rand_, p) % n'
                 /\ keys'[p] \in 0..(n' - 1)
            /\ rand_' = Draws(rand_, n')]_vars

C16_Witness ==
  /\ name = "fillrandom"
  /\ pc = "step"
  /\ n = 2
  /\ keys = <<1, 1>>
  /\ rand_ = 282475249


\* the first chunk of the running workload begins
FirstChunkBegins ==
  /\ pc \in {"begin_step", "begin_reset", "bind_key"}
  /\ Len(chunks) = 1
  /\ execs = 0 /\ i = 0 /\ j = 0

\* the message benchmark_write sets when its entry count is not num_
OwnMessage ==
  IF op = "write" /\ num_entries # num_ THEN <<"(ops)">> ELSE <<>>

\* C17 (as stated): when the first chunk of a workload begins, the
\* operation counter is 0, the next-report threshold is 100, the elapsed
\* time is 0, the byte count is 0 and the result message is empty.
C17_ResetAtStart ==
  FirstChunkBegins =>
    /\ done_ = 0
    /\ next_report_ = 100
    /\ op_total_time_ = 0
    /\ bytes_ = 0
    /\ message_ = <<>>

\* C17 (amended): when the first chunk of a workload begins, the
\* operation counter is 0, the next-report threshold is 100, the elapsed
\* time is 0, the byte count is 0 and the result message is empty or, in
\* a write workload whose entry count is not num_, that workload's own
\* '(N ops)' message; nothing of an earlier workload is left.
C17_ResetKeepsOwnMessage ==
  FirstChunkBegins =>
    /\ done_ = 0
    /\ next_report_ = 100
    /\ op_total_time_ = 0
    /\ bytes_ = 0
    /\ message_ = OwnMessage

C17_Witness ==
  /\ FLAGS_benchmarks = <<"fillseq100K", "fillseq">>
  /\ name = "fillseq"
  /\ FirstChunkBegins
  /\ rows = {0, 1}
  /\ message_ = <<>>


\* the thresholds lo + step, lo + 2 step, ... up to hi
Tier(lo, hi, step) == {lo + k * step : k \in 1..((hi - lo) \div step)}

\* the thresholds as the specification gives them
Thresholds ==
  {100} \cup Tier(100, 1000, 100) \cup Tier(1000, 5000, 500)
        \cup Tier(5000, 10000, 1000) \cup Tier(10000, 50000, 5000)
        \cup Tier(50000, 100000, 10000) \cup Tier(100000, 500000, 50000)
        \cup Tier(500000, 500000 + 100000 * (1 + MaxOps \div 100000), 100000)

\* C18: finish_single_op adds one to the operation counter and prints a
\* progress line exactly when the counter reaches the threshold; the
\* threshold is 100 at first and then grows by 100 up to 1000, by 500 up
\* to 5000, by 1000 up to 10000, by 5000 up to 50000, by 10000 up to
\* 100000, by 50000 up to 500000 and by 100000 from there on; the step
\* never shrinks and never exceeds 100000, and after every call the
\* counter is below the threshold.
C18_ProgressThresholds ==
  /\ [](/\ done_ < next_report_
        /\ next_report_ \in Thresholds
        /\ \A t \in Thresholds : t > done_ => t >= next_report_
        /\ {progress[k] : k \in 1..Len(progress)}
             = {t \in Thresholds : t <= done_}
        /\ \A k \in 1..(Len(progress) - 1) : progress[k] < progress[k + 1])
  /\ [][done_' # done_ =>
          /\ done_' = done_ + 1
          /\ progress' # progress <=> done_' = next_report_
          /\ progress' # progress => progress' = Append(progress, done_')
          /\ next_report_' # next_report_ <=> done_' = next_report_
          /\ next_report_' - next_report_ \in 0..100000]_vars

C18_Witness ==
  /\ pc = "ops"
  /\ done_ = 1000
  /\ next_report_ = 1500
  /\ progress = <<100, 200, 300, 400, 500, 600, 700, 800, 900, 1000>>


\* C19: after stop(name), when bytes were recorded the result message is
\* the throughput string followed by the workload's own message (the
\* '(N ops)' of the *100K fills is kept), and when no bytes were recorded
\* the message is as the workload left it.
C19_MessagePrepended ==
  (pc = "run_loop" /\ completed > 0 /\ name \in KnownNames) =>
     IF bytes_ > 0
     THEN \E rate \in RateStrings : message_ = <<rate, " ">> \o OwnMessage
     ELSE message_ = OwnMessage


\* an argument that matches a flag pattern, its number (if the flag takes
\* one) parseable and in the allowed set
ValidArg(a) ==
  \/ a.flag \in {"--benchmarks=", "--db=", "--key=", "--no_transaction"}
  \/ /\ a.flag \in {"--compression_ratio=", "--num=", "--reads=",
                    "--value_size=", "--page_size=", "--num_pages="}
     /\ a.has /\ ~a.junk
  \/ /\ a.flag \in {"--use_existing_db=", "--WAL_enabled=",
                    "--use_sqlcipher="}
     /\ a.has /\ ~a.junk /\ a.int \in {0, 1}

\* what the first argument that is --help or not valid decides
RECURSIVE Outcome(_)
Outcome(q) ==
  IF q = <<>> THEN "run"
  ELSE IF Head(q).flag = "--help" THEN "help"
  ELSE IF ~ValidArg(Head(q)) THEN "invalid"
  ELSE Outcome(Tail(q))

\* C20: the arguments are examined left to right.  The first argument
\* that matches no flag pattern, or whose number is unparseable or not in
\* the allowed set, ends the process with exit code 1, and --help ends it
\* with exit code 0, in both cases before benchmark_init: no database is
\* opened, no workload is taken and nothing happens afterwards.
\* Otherwise the workloads run, and a run that completes exits with 0.
C20_ArgumentOutcome ==
  /\ [](/\ Outcome(argv) = "invalid" => pc \in {"args", "invalid"}
        /\ Outcome(argv) = "help" => pc \in {"args", "help"}
        /\ Outcome(argv) = "run" => pc \notin {"help", "invalid"}
        /\ pc = "args" => exitCode = "none"
        /\ pc = "invalid" => exitCode = 1
        /\ pc = "help" => exitCode = 0
        /\ pc \in {"args", "help", "invalid"} =>
             db_ = "NULL" /\ lastCall = NoCall /\ taken = 0 /\ num_ = 0
        /\ pc = "done" =>
             exitCode = 0 /\ completed = Len(FLAGS_benchmarks))
  /\ [][pc \notin {"help", "invalid"}]_vars

C20_Witness ==
  /\ pc = "invalid"
  /\ exitCode = 1
  /\ argi = 3
  /\ argv[2] = Arg("--use_existing_db=", TRUE, 2, FALSE, <<>>)
  /\ FLAGS_num = 1


(***************************************************************************)
(* C21                                                                     *)
(***************************************************************************)
\* the files, before the run, of the directory path whose names start with
\* dbbench_sqlite3
PrefixedEntries(path) ==
  {p \in InitFiles : /\ Len(p) = 3 /\ p[2] = "/" /\ p[1] = path[1]
                     /\ starts_with(p[3], "dbbench_sqlite3")}

\* C21: once benchmark_init has returned and the database is being opened,
\* with --use_existing_db=1 no file has been removed and the path opened is
\* the --db path itself; otherwise exactly the entries of the --db
\* directory whose names start with dbbench_sqlite3 have been removed and
\* the path opened is <db>dbbench_sqlite3.db.
C21_InitRemovesPrefixedEntries ==
  file_name # <<>> =>
    IF FLAGS_use_existing_db
    THEN files = InitFiles /\ file_name = FLAGS_db
    ELSE /\ files = InitFiles \ PrefixedEntries(FLAGS_db)
         /\ file_name = FLAGS_db \o <<DbName>>


(***************************************************************************)
(* C22                                                                     *)
(***************************************************************************)
\* the divisor of the comments on fillseqsync and fillrandsync
SyncFraction == 100

\* C22: when the loop of fillseqsync or fillrandsync has ended without a
\* failure, N/100 values have been written in sync mode, N the configured
\* entry count, in the key order of the name.
C22_SyncWritesHundredth ==
  (name \in {"fillseqsync", "fillrandsync"} /\ LoopEnded /\ num_ >= 0) =>
    /\ write_sync
    /\ order = (IF name = "fillseqsync" THEN SEQUENTIAL ELSE RANDOM)
    /\ num_entries = num_ \div SyncFraction
    /\ execs = num_ \div SyncFraction


(***************************************************************************)
(* C23                                                                     *)
(***************************************************************************)
\* the process goes on as long as it has a step to take
SpecLive == Init /\ [][Next]_vars /\ WF_vars(Next)

\* every run ends: closed, aborted by exit(1), or stopped by a fault
Terminates == <>(pc \in Ended)

\* C23: a workload whose loops have ended has run its configured number of
\* entries, and a run never stops anywhere but in the closed state or, after
\* a fatal engine error, in the aborted state.
C23_RunsToCompletion ==
  /\ LoopEnded => SumSeq(chunks) = (IF EntryCount > 0 THEN EntryCount ELSE 0)
  /\ pc # "crashed"

(***************************************************************************)
(* C24                                                                     *)
(***************************************************************************)
\* C24: whenever a key or a value is about to be bound, or the statement
\* bound to them stepped, the index i + j is below n, the size of the
\* arrays of the chunk, and nothing was ever read outside them.
C24_IndexInsideChunk ==
  /\ pc \in {"bind_key", "bind_value", "step"} => i + j < n
  /\ ~oob


(***************************************************************************)
(* C25                                                                     *)
(***************************************************************************)
\* op_total_time_ is the time that passed between the two readings of the
\* clock of the chunks of this workload that have ended
TimeIsChunkTime ==
  /\ pc \in Timed => op_total_time_ + (clock - startMicros) = spent
  /\ pc \notin Timed \cup {"aborted", "crashed"} => op_total_time_ = spent
  /\ LoopEnded => op_total_time_ = SumSeq(elapsed)

\* a step that changes op_total_time_ is the end of a chunk, which adds the
\* time since the reading before BEGIN TRANSACTION, or start(), which
\* sets it to 0; that reading is taken when the keys exist and the
\* statements are prepared, right before the transaction begins
TimeChangesAtChunkEnd ==
  /\ op_total_time_' # op_total_time_ =>
       \/ /\ pc \in {"reset", "end_reset"}
          /\ pc' \in {"start_clock", "finalize"}
          /\ op_total_time_' = op_total_time_ + (clock' - startMicros)
       \/ /\ pc \in {"run_loop", "create"}
          /\ op_total_time_' = 0
  /\ startMicros' # startMicros =>
       /\ pc = "start_clock" /\ pc' \in {"begin_step", "bind_key"}
       /\ startMicros' = clock'
       /\ Len(keys) = n /\ live = {"key", "begin", "end"}

\* C25: op_total_time_ changes only at the end of a chunk (and in
\* start(), which resets it), by the wall-clock time between the point
\* before BEGIN TRANSACTION and the point after END TRANSACTION of that
\* chunk; the time that passes before the first of the two readings, during
\* key and value generation, the synchronous pragma, prepare and finalize,
\* schema creation and the WAL checkpoint, is not counted, and the total
\* of the workload is the sum of the times of its chunks.
C25_TimeAroundChunks == []TimeIsChunkTime /\ [][TimeChangesAtChunkEnd]_vars

\* C25 witness: a chunk has ended during which time passed, after time had
\* passed before its first reading of the clock
C25_Witness ==
  /\ LoopEnded /\ Len(elapsed) = 1
  /\ op_total_time_ = 1 /\ spent = 1 /\ startMicros = 1 /\ clock = 2

(***************************************************************************)
(* C26                                                                     *)
(***************************************************************************)
\* C26: during and after a write workload bytes_ is the number of
\* executions of the write statement in this workload times
\* (value size + 4), the execution that failed and ended the process
\* included; in a read or delete workload bytes_ is 0 and the message
\* holds no throughput, up to and after stop().
C26_BytesPerExecution ==
  /\ op = "write" =>
       IF pc \in {"aborted", "crashed"}
       THEN bytes_ \in {execs * (value_size + 4),
                        (execs + 1) * (value_size + 4)}
       ELSE bytes_ = execs * (value_size + 4)
  /\ op \in {"read", "delete"} =>
       /\ bytes_ = 0
       /\ \A k \in 1..Len(message_) : message_[k] \notin RateStrings

\* C26 witness: a write workload with two executions of 132 bytes each has
\* returned
C26_Witness ==
  /\ op = "write" /\ pc = "run_loop"
  /\ execs = 2 /\ bytes_ = 2 * (DefaultValueSize + 4)

=============================================================================
